---- MODULE Spec2Model ----
(***************************************************************************)
(* Model of source/renderer/HWLightingModelRenderer.cpp (0 A.D.):          *)
(* ShaderModelDef, ShaderModel and the five operations of                  *)
(* ShaderModelVertexRenderer, run against one device command context.      *)
(*                                                                         *)
(* VertexArray / VertexIndexArray, ModelRenderer::Build* and the ENSURE    *)
(* macro live in other files of the engine; they are modelled here by the  *)
(* contract the renderer consumes from them.                               *)
(***************************************************************************)
EXTENDS FiniteSets, Integers, Naturals, Sequences, TLC

VARIABLES
    packing,         \* attribute packing the platform's VertexArray::Layout applies
    status,          \* "running", or how the program stopped
    cache,           \* cache[d][r]: ShaderModelDef stored on definition d under key r, or NULL
    constructions,   \* constructions[d][r]: number of ShaderModelDef constructor runs
    shadermodeldef,  \* shadermodeldef[r]: m->shadermodeldef of renderer r
    data,            \* the ShaderModel objects returned so far, in creation order
    vbAlloc,         \* next free element of each shared backend buffer group
    ctx,             \* bindings and last draw of the device command context
    stats,           \* g_Renderer.m_Stats
    renderCalls,     \* history: RenderModel calls that returned
    renderedFaces,   \* history: sum of the face counts of the rendered models
    lastPrepared,    \* history: lastPrepared[r] = definition of r's latest PrepareModelDef call
    preparedBy,      \* history: the renderer of the latest PrepareModelDef call
    last             \* history: the latest operation and what it did

vars == <<packing, status, cache, constructions, shadermodeldef, data, vbAlloc,
          ctx, stats, renderCalls, renderedFaces, lastPrepared, preparedBy, last>>

----------------------------------------------------------------------------
(* Bounds and inputs *)

MaxData == 2
MaxDraws == 2

NULL == "NULL"            \* a null ShaderModelDef* held by a renderer
NullDef == [null |-> TRUE]   \* GetRenderData(m) of a definition with nothing cached
NoBuffer == <<>>          \* no backend buffer bound
NoLayout == <<>>          \* no vertex input layout bound
NoDraw == [null |-> TRUE]    \* no draw recorded
Renderers == {"r1", "r2"}
DefIds == {"d1", "d2"}
Poses == {"poseA", "poseB"}
Packings == {"reverse", "forward", "padded"}

\* CModelDef::GetNumVertices / GetNumFaces / GetNumUVsPerVertex of the two definitions
NumVertices == [d \in DefIds |-> IF d = "d1" THEN 4 ELSE 3]
NumFaces == [d \in DefIds |-> IF d = "d1" THEN 2 ELSE 1]
NumUVsPerVertex == [d \in DefIds |-> IF d = "d1" THEN 1 ELSE 2]

UpdateFlagSets == {{"INDICES"}, {"VERTICES", "INDICES"}}
RENDERDATA_UPDATE_VERTICES == "VERTICES"

----------------------------------------------------------------------------
(* Constants of the anonymous namespace *)

MODEL_VERTEX_ATTRIBUTE_STRIDE == 32
MODEL_VERTEX_ATTRIBUTE_POSITION_OFFSET == 16
MODEL_VERTEX_ATTRIBUTE_NORMAL_OFFSET == 0

----------------------------------------------------------------------------
(* VertexArray, as consumed by the renderer *)

R32G32_SFLOAT == "R32G32_SFLOAT"
R32G32B32_SFLOAT == "R32G32B32_SFLOAT"
R32G32B32A32_SFLOAT == "R32G32B32A32_SFLOAT"

\* bytes of one attribute of the given format (32-bit float components)
AttributeSize(format) ==
    CASE format = R32G32_SFLOAT -> 8
      [] format = R32G32B32_SFLOAT -> 12
      [] format = R32G32B32A32_SFLOAT -> 16

RECURSIVE SumSizes(_)
SumSizes(formats) ==
    IF formats = <<>> THEN 0
    ELSE AttributeSize(Head(formats)) + SumSizes(Tail(formats))

\* VertexArray::Layout: byte offset of attribute i of the attribute list
LayoutOffset(formats, i, pk) ==
    IF pk = "reverse"
    THEN SumSizes(SubSeq(formats, i + 1, Len(formats)))
    ELSE SumSizes(SubSeq(formats, 1, i - 1))

\* VertexArray::Layout / GetStride: bytes per vertex
LayoutStride(formats, pk) ==
    IF pk = "padded" THEN SumSizes(formats) + 16 ELSE SumSizes(formats)

\* VertexArray::Upload. A buffer with DYNAMIC usage defers the transfer to
\* UploadIfNeeded; any other buffer is transferred at once.
VA_Upload(a) ==
    IF a.dynamic THEN [a EXCEPT !.dirty = TRUE]
    ELSE [a EXCEPT !.gpu = a.cpu, !.dirty = FALSE]

VA_UploadTransfers(a) == ~a.dynamic

\* VertexArray::UploadIfNeeded: the deferred transfer, once per modification
VA_UploadIfNeededTransfers(a) == a.dynamic /\ a.dirty

VA_UploadIfNeeded(a) ==
    IF VA_UploadIfNeededTransfers(a)
    THEN [a EXCEPT !.gpu = a.cpu, !.dirty = FALSE]
    ELSE a

\* VertexArray::PrepareForRendering: marks the buffer as used by the coming
\* draws; it touches neither the contents nor the pending transfer
VA_PrepareForRendering(a) == a

\* VertexArray::FreeBackingStore
VA_FreeBackingStore(a) == [a EXCEPT !.backing = FALSE, !.cpu = <<"freed">>]

\* a laid-out array: n elements of the given stride at chunk offset off of
\* the backend buffer buf, CPU backing store allocated and not yet written
VA_New(buf, off, n, stride, dynamic) ==
    [buffer |-> buf, offset |-> off, n |-> n, stride |-> stride,
     dynamic |-> dynamic, backing |-> TRUE, cpu |-> <<"unwritten">>,
     gpu |-> <<"none">>, dirty |-> FALSE]

----------------------------------------------------------------------------
(* ShaderModelDef *)

Attr(stream, format, offset, stride, slot) ==
    [stream |-> stream, format |-> format, offset |-> offset,
     stride |-> stride, rate |-> "PER_VERTEX", slot |-> slot]

\* formats of m_UVs after the first loop of the constructor
UVFormats(d) == [i \in 1..NumUVsPerVertex[d] |-> R32G32_SFLOAT]

\* the attribute list handed to g_Renderer.GetVertexInputLayout
VertexInputLayoutOf_NoUV1(d, pk) ==
    LET stride == LayoutStride(UVFormats(d), pk)
    IN  << Attr("UV0", R32G32_SFLOAT, LayoutOffset(UVFormats(d), 1, pk), stride, 0),
           Attr("POSITION", R32G32B32_SFLOAT,
                MODEL_VERTEX_ATTRIBUTE_POSITION_OFFSET,
                MODEL_VERTEX_ATTRIBUTE_STRIDE, 1),
           Attr("NORMAL", R32G32B32_SFLOAT,
                MODEL_VERTEX_ATTRIBUTE_NORMAL_OFFSET,
                MODEL_VERTEX_ATTRIBUTE_STRIDE, 1) >>

VertexInputLayoutOf(d, pk) ==
    LET stride == LayoutStride(UVFormats(d), pk)
        base == << Attr("UV0", R32G32_SFLOAT, LayoutOffset(UVFormats(d), 1, pk), stride, 0),
                   Attr("POSITION", R32G32B32_SFLOAT,
                        MODEL_VERTEX_ATTRIBUTE_POSITION_OFFSET,
                        MODEL_VERTEX_ATTRIBUTE_STRIDE, 1),
                   Attr("NORMAL", R32G32B32_SFLOAT,
                        MODEL_VERTEX_ATTRIBUTE_NORMAL_OFFSET,
                        MODEL_VERTEX_ATTRIBUTE_STRIDE, 1) >>
    IN  IF NumUVsPerVertex[d] >= 2
        THEN Append(base, Attr("UV1", R32G32_SFLOAT,
                               LayoutOffset(UVFormats(d), 2, pk), stride, 0))
        ELSE base

\* ModelRenderer::BuildUV for every channel, ModelRenderer::BuildIndices
BuiltUVs(d) == <<"uv", d>>
BuiltIndices(d) == <<"indices", d>>

\* m_IndexArray.SetNumberOfVertices(mdef->GetNumFaces()*3)
IndexCount_FacesOnly(d) == NumFaces[d]

IndexCount(d) == NumFaces[d] * 3

\* the object the constructor leaves behind for definition d under key r
NewShaderModelDef_FreeFirst(d, r, pk, alloc) ==
    LET arr0 == VA_New(<<"defVB", d, r>>, alloc.static, NumVertices[d],
                       LayoutStride(UVFormats(d), pk), FALSE)
        arr1 == [arr0 EXCEPT !.cpu = BuiltUVs(d)]
        idx0 == VA_New(<<"defIB", d, r>>, alloc.index, IndexCount(d), 2, FALSE)
        idx1 == [idx0 EXCEPT !.cpu = BuiltIndices(d)]
    IN  [m_IndexArray |-> VA_Upload(VA_FreeBackingStore(idx1)),
         m_Array |-> VA_Upload(VA_FreeBackingStore(arr1)),
         m_UVs |-> [i \in 1..NumUVsPerVertex[d] |->
                      [format |-> R32G32_SFLOAT,
                       offset |-> LayoutOffset(UVFormats(d), i, pk)]],
         m_VertexInputLayout |-> VertexInputLayoutOf(d, pk)]

NewShaderModelDef(d, r, pk, alloc) ==
    LET arr0 == VA_New(<<"defVB", d, r>>, alloc.static, NumVertices[d],
                       LayoutStride(UVFormats(d), pk), FALSE)
        arr1 == [arr0 EXCEPT !.cpu = BuiltUVs(d)]
        idx0 == VA_New(<<"defIB", d, r>>, alloc.index, IndexCount(d), 2, FALSE)
        idx1 == [idx0 EXCEPT !.cpu = BuiltIndices(d)]
    IN  [m_IndexArray |-> VA_FreeBackingStore(VA_Upload(idx1)),
         m_Array |-> VA_FreeBackingStore(VA_Upload(arr1)),
         m_UVs |-> [i \in 1..NumUVsPerVertex[d] |->
                      [format |-> R32G32_SFLOAT,
                       offset |-> LayoutOffset(UVFormats(d), i, pk)]],
         m_VertexInputLayout |-> VertexInputLayoutOf(d, pk)]

\* what the constructor does, in program order
ShaderModelDefEvents(d) ==
    [i \in 1..NumUVsPerVertex[d] |-> IF i = 1 THEN "BuildUV:0" ELSE "BuildUV:1"]
    \o <<"Upload:def.m_Array", "Transfer:def.m_Array", "FreeBackingStore:def.m_Array",
          "BuildIndices",
          "Upload:def.m_IndexArray", "Transfer:def.m_IndexArray",
          "FreeBackingStore:def.m_IndexArray",
          "GetVertexInputLayout">>

----------------------------------------------------------------------------
(* ShaderModel *)

InstanceFormats == <<R32G32B32A32_SFLOAT, R32G32B32A32_SFLOAT>>

\* the object CreateModelData builds for a model of definition d; id names
\* the new object
NewShaderModel(d, pk, alloc, id) ==
    [def |-> d,
     m_Array |-> VA_New(<<"instVB", id>>, alloc.dynamic, NumVertices[d],
                        LayoutStride(InstanceFormats, pk), TRUE),
     m_Position |-> [format |-> R32G32B32A32_SFLOAT,
                     offset |-> LayoutOffset(InstanceFormats, 1, pk)],
     m_Normal |-> [format |-> R32G32B32A32_SFLOAT,
                   offset |-> LayoutOffset(InstanceFormats, 2, pk)]]

----------------------------------------------------------------------------
(* Initial state: ShaderModelVertexRenderer::ShaderModelVertexRenderer *)

NoOp == [op |-> "none", r |-> NULL, k |-> 0, flags |-> {}, events |-> <<>>,
         again |-> FALSE]

Init ==
    /\ packing \in Packings
    /\ status = "running"
    /\ cache = [d \in DefIds |-> [r \in Renderers |-> NullDef]]
    /\ constructions = [d \in DefIds |-> [r \in Renderers |-> 0]]
    /\ shadermodeldef = [r \in Renderers |-> NULL]
    /\ data = <<>>
    /\ vbAlloc = [index |-> 0, static |-> 0, dynamic |-> 0]
    /\ ctx = [layout |-> NoLayout, vb0 |-> NoBuffer, vb1 |-> NoBuffer,
              ib |-> NoBuffer, draw |-> NoDraw]
    /\ stats = [m_DrawCalls |-> 0, m_ModelTris |-> 0]
    /\ renderCalls = 0
    /\ renderedFaces = 0
    /\ lastPrepared = [r \in Renderers |-> NULL]
    /\ preparedBy = NULL
    /\ last = NoOp

----------------------------------------------------------------------------
(* The five operations *)

\* history record: the operation, the renderer it was called on (NULL where
\* the method reads nothing of it), the ShaderModel it was given or returned
\* (0 if none), its update flags, the calls it made, in program order, and
\* for UploadModelData whether the operation before it was an UploadModelData
\* of the same ShaderModel
Op(op, r, k, flags, events) ==
    [op |-> op, r |-> r, k |-> k, flags |-> flags, events |-> events,
     again |-> (op = "UploadModelData" /\ last.op = op /\ last.k = k)]

\* !shadermodeldef after mdef->GetRenderData(m)
CacheMiss_Always(r, d) == TRUE

CacheMiss_Never(r, d) == FALSE

CacheMiss(r, d) == cache[d][r] = NullDef

\* the six ENSUREs of CreateModelData
LayoutVerified_AlignmentOnly(sm) ==
    /\ sm.m_Position.offset % 16 = 0
    /\ sm.m_Normal.offset % 16 = 0
    /\ sm.m_Array.stride % 16 = 0

LayoutVerified_StrideOnly(sm) ==
    /\ sm.m_Position.offset % 16 = 0
    /\ sm.m_Normal.offset % 16 = 0
    /\ sm.m_Array.stride % 16 = 0
    /\ sm.m_Array.stride = MODEL_VERTEX_ATTRIBUTE_STRIDE

LayoutVerified(sm) ==
    /\ sm.m_Position.offset % 16 = 0
    /\ sm.m_Normal.offset % 16 = 0
    /\ sm.m_Array.stride % 16 = 0
    /\ sm.m_Array.stride = MODEL_VERTEX_ATTRIBUTE_STRIDE
    /\ sm.m_Position.offset = MODEL_VERTEX_ATTRIBUTE_POSITION_OFFSET
    /\ sm.m_Normal.offset = MODEL_VERTEX_ATTRIBUTE_NORMAL_OFFSET

\* CreateModelData(key, model) on renderer r, for a model of definition d
CreateModelData(r, d) ==
    /\ status = "running"
    /\ Len(data) < MaxData
    /\ LET miss == CacheMiss(r, d)
           sm == NewShaderModel(d, packing, vbAlloc, Len(data) + 1)
       IN  /\ cache' = IF miss
                       THEN [cache EXCEPT ![d][r] = NewShaderModelDef(d, r, packing, vbAlloc)]
                       ELSE cache
           /\ constructions' = IF miss
                               THEN [constructions EXCEPT ![d][r] = @ + 1]
                               ELSE constructions
           /\ vbAlloc' = [index |-> vbAlloc.index + (IF miss THEN IndexCount(d) ELSE 0),
                          static |-> vbAlloc.static + (IF miss THEN NumVertices[d] ELSE 0),
                          dynamic |-> vbAlloc.dynamic + NumVertices[d]]
           /\ IF LayoutVerified(sm)
              THEN /\ data' = Append(data, sm)
                   /\ status' = status
              ELSE /\ data' = data
                   /\ status' = "asserted"
           /\ last' = Op("CreateModelData", r,
                         IF LayoutVerified(sm) THEN Len(data) + 1 ELSE 0, {},
                         (IF miss THEN <<"new ShaderModelDef">> \o ShaderModelDefEvents(d)
                          ELSE <<>>)
                         \o <<"new ShaderModel">>
                         \o (IF LayoutVerified(sm) THEN <<>> ELSE <<"ENSURE">>))
    /\ UNCHANGED <<packing, shadermodeldef, ctx, stats, renderCalls, renderedFaces,
                   lastPrepared, preparedBy>>

\* updateflags & RENDERDATA_UPDATE_VERTICES
VerticesChanged_AnyFlag(updateflags) == updateflags # {}

VerticesChanged(updateflags) == RENDERDATA_UPDATE_VERTICES \in updateflags

\* the body of the if of UpdateModelData: BuildPositionAndNormals writes the
\* pose into the backing store, then m_Array.Upload()
RebuildAndUpload_UploadFirst(a, pose) ==
    [array |-> [VA_Upload(a) EXCEPT !.cpu = <<"pose", pose>>],
     events |-> <<"Upload:model.m_Array">>
                \o (IF VA_UploadTransfers(a) THEN <<"Transfer:model.m_Array">> ELSE <<>>)
                \o <<"BuildPositionAndNormals">>]

RebuildAndUpload(a, pose) ==
    [array |-> VA_Upload([a EXCEPT !.cpu = <<"pose", pose>>]),
     events |-> <<"BuildPositionAndNormals", "Upload:model.m_Array">>
                \o (IF VA_UploadTransfers(a) THEN <<"Transfer:model.m_Array">> ELSE <<>>)]

\* shadermodel->m_Array.PrepareForRendering(), the last statement of
\* UpdateModelData, outside the if; b is the array and the calls made so far
PrepareInstance_IfRebuilt(b) ==
    IF b.events = <<>> THEN b
    ELSE [array |-> VA_PrepareForRendering(b.array),
          events |-> b.events \o <<"PrepareForRendering">>]

PrepareInstance(b) ==
    [array |-> VA_PrepareForRendering(b.array),
     events |-> b.events \o <<"PrepareForRendering">>]

\* UpdateModelData(model, data, updateflags) for data[k]; the method reads
\* nothing of the renderer it is called on. pose is what
\* BuildPositionAndNormals computes from the model.
UpdateModelData(k, updateflags, pose) ==
    /\ status = "running"
    /\ k \in 1..Len(data)
    /\ LET a0 == data[k].m_Array
           built == IF VerticesChanged(updateflags)
                    THEN RebuildAndUpload(a0, pose)
                    ELSE [array |-> a0, events |-> <<>>]
           prepared == PrepareInstance(built)
       IN  /\ data' = [data EXCEPT ![k].m_Array = prepared.array]
           /\ last' = Op("UpdateModelData", NULL, k, updateflags, prepared.events)
    /\ UNCHANGED <<packing, status, cache, constructions, shadermodeldef, vbAlloc, ctx,
                   stats, renderCalls, renderedFaces, lastPrepared, preparedBy>>

\* one array.UploadIfNeeded(deviceCommandContext) of UploadModelData; name
\* says which array it is
UploadIfNeeded_Always(a, name) ==
    [array |-> [a EXCEPT !.gpu = a.cpu, !.dirty = FALSE],
     events |-> <<name>>]

UploadIfNeeded_Upload(a, name) ==
    [array |-> VA_Upload(a),
     events |-> IF VA_UploadTransfers(a) THEN <<name>> ELSE <<>>]

UploadIfNeeded(a, name) ==
    [array |-> VA_UploadIfNeeded(a),
     events |-> IF VA_UploadIfNeededTransfers(a) THEN <<name>> ELSE <<>>]

\* UploadModelData(deviceCommandContext, model, data) on renderer r, for data[k]
UploadModelData(r, k) ==
    /\ status = "running"
    /\ k \in 1..Len(data)
    /\ LET d == data[k].def
           shaderModelDef == cache[d][r]
       IN  IF shaderModelDef = NullDef
           THEN /\ status' = "asserted"
                /\ last' = Op("UploadModelData", r, k, {}, <<"ENSURE">>)
                /\ UNCHANGED <<cache, data>>
           ELSE LET u1 == UploadIfNeeded(shaderModelDef.m_Array, "Transfer:def.m_Array")
                    u2 == UploadIfNeeded(shaderModelDef.m_IndexArray,
                                         "Transfer:def.m_IndexArray")
                    u3 == UploadIfNeeded(data[k].m_Array, "Transfer:model.m_Array")
                IN  /\ status' = status
                    /\ cache' = [cache EXCEPT ![d][r].m_Array = u1.array,
                                              ![d][r].m_IndexArray = u2.array]
                    /\ data' = [data EXCEPT ![k].m_Array = u3.array]
                    /\ last' = Op("UploadModelData", r, k, {},
                                  u1.events \o u2.events \o u3.events)
    /\ UNCHANGED <<packing, constructions, shadermodeldef, vbAlloc, ctx, stats,
                   renderCalls, renderedFaces, lastPrepared, preparedBy>>

\* a buffer binding: backend buffer and byte offset of the first vertex
Binding(a) == [buffer |-> a.buffer, offset |-> a.offset * a.stride]

\* deviceCommandContext->SetVertexBuffer(slot, buffer, offset)
SetVertexBuffer(c, slot, binding) ==
    IF slot = 0 THEN [c EXCEPT !.vb0 = binding] ELSE [c EXCEPT !.vb1 = binding]

\* m->shadermodeldef = static_cast<ShaderModelDef*>(def.GetRenderData(m)):
\* the value stored, a non-null pointer being named by the definition whose
\* entry under r it points to
PreparedDef_KeepFirst(r, d) ==
    IF shadermodeldef[r] # NULL THEN shadermodeldef[r]
    ELSE IF cache[d][r] = NullDef THEN NULL ELSE d

PreparedDef(r, d) == IF cache[d][r] = NullDef THEN NULL ELSE d

\* PrepareModelDef(deviceCommandContext, def) on renderer r
PrepareModelDef(r, d) ==
    /\ status = "running"
    /\ lastPrepared' = [lastPrepared EXCEPT ![r] = d]
    /\ preparedBy' = r
    /\ shadermodeldef' = [shadermodeldef EXCEPT ![r] = PreparedDef(r, d)]
    /\ IF PreparedDef(r, d) = NULL
       THEN /\ status' = "asserted"
            /\ ctx' = ctx
            /\ last' = Op("PrepareModelDef", r, 0, {}, <<"ENSURE">>)
       ELSE /\ status' = status
            /\ ctx' = SetVertexBuffer(
                        [ctx EXCEPT !.layout = cache[PreparedDef(r, d)][r].m_VertexInputLayout],
                        0, Binding(cache[PreparedDef(r, d)][r].m_Array))
            /\ last' = Op("PrepareModelDef", r, 0, {},
                          <<"SetVertexInputLayout", "SetVertexBuffer:0">>)
    /\ UNCHANGED <<packing, cache, constructions, data, vbAlloc, stats, renderCalls,
                   renderedFaces>>

\* the arguments of DrawIndexedInRange (the definitions modelled have at
\* least one vertex, so no argument wraps)
Draw(firstIndex, indexCount, start, end) ==
    [firstIndex |-> firstIndex, indexCount |-> indexCount, start |-> start, end |-> end]

\* SetVertexBuffer(1, shadermodel->m_Array.GetBuffer(), firstVertexOffset)
BindInstance_Slot0(c, a) == SetVertexBuffer(c, 0, Binding(a))

BindInstance(c, a) == SetVertexBuffer(c, 1, Binding(a))

\* DrawIndexedInRange(m_IndexArray.GetOffset(), numberOfFaces * 3, 0,
\*                    mdldef->GetNumVertices() - 1)
DrawArgs_FacesOnly(indexArray, mdldef) ==
    Draw(indexArray.offset, NumFaces[mdldef], 0, NumVertices[mdldef] - 1)

DrawArgs_FirstIndexZero(indexArray, mdldef) ==
    Draw(0, NumFaces[mdldef] * 3, 0, NumVertices[mdldef] - 1)

DrawArgs(indexArray, mdldef) ==
    Draw(indexArray.offset, NumFaces[mdldef] * 3, 0, NumVertices[mdldef] - 1)

\* g_Renderer.m_Stats.m_DrawCalls++; m_ModelTris += numberOfFaces
BumpStats_Indices(s, numberOfFaces) ==
    [m_DrawCalls |-> s.m_DrawCalls + 1, m_ModelTris |-> s.m_ModelTris + numberOfFaces * 3]

BumpStats(s, numberOfFaces) ==
    [m_DrawCalls |-> s.m_DrawCalls + 1, m_ModelTris |-> s.m_ModelTris + numberOfFaces]

\* RenderModel(deviceCommandContext, shader, model, data) on renderer r, for data[k]
RenderModel(r, k) ==
    /\ status = "running"
    /\ k \in 1..Len(data)
    /\ stats.m_DrawCalls < MaxDraws
    /\ LET mdldef == data[k].def
           bound1 == BindInstance(ctx, data[k].m_Array)
       IN  IF shadermodeldef[r] = NULL
           THEN \* m->shadermodeldef is dereferenced unchecked: undefined
                \* behaviour, which either faults or goes on with junk
                \/ /\ status' = "segv"
                   /\ ctx' = bound1
                   /\ last' = Op("RenderModel", r, k, {}, <<"SetVertexBuffer:1">>)
                   /\ UNCHANGED <<stats, renderCalls, renderedFaces>>
                \/ /\ status' = "undefined"
                   /\ ctx' = [bound1 EXCEPT !.ib = <<"junk">>,
                                !.draw = DrawArgs([offset |-> 0], mdldef)]
                   /\ stats' = BumpStats(stats, NumFaces[mdldef])
                   /\ last' = Op("RenderModel", r, k, {},
                                 <<"SetVertexBuffer:1", "SetIndexBuffer", "DrawIndexedInRange">>)
                   /\ UNCHANGED <<renderCalls, renderedFaces>>
           ELSE LET def == cache[shadermodeldef[r]][r]
                IN  /\ status' = status
                    /\ ctx' = [bound1 EXCEPT !.ib = def.m_IndexArray.buffer,
                                 !.draw = DrawArgs(def.m_IndexArray, mdldef)]
                    /\ stats' = BumpStats(stats, NumFaces[mdldef])
                    /\ renderCalls' = renderCalls + 1
                    /\ renderedFaces' = renderedFaces + NumFaces[mdldef]
                    /\ last' = Op("RenderModel", r, k, {},
                                  <<"SetVertexBuffer:1", "SetIndexBuffer", "DrawIndexedInRange">>)
    /\ UNCHANGED <<packing, cache, constructions, shadermodeldef, data, vbAlloc,
                   lastPrepared, preparedBy>>

Next ==
    \/ \E r \in Renderers, d \in DefIds : CreateModelData(r, d)
    \/ \E k \in 1..MaxData, f \in UpdateFlagSets, p \in Poses : UpdateModelData(k, f, p)
    \/ \E r \in Renderers, k \in 1..MaxData : UploadModelData(r, k)
    \/ \E r \in Renderers, d \in DefIds : PrepareModelDef(r, d)
    \/ \E r \in Renderers, k \in 1..MaxData : RenderModel(r, k)

Spec == Init /\ [][Next]_vars

----------------------------------------------------------------------------
(* Helpers of the properties *)

RECURSIVE Count(_, _)
Count(seq, e) ==
    IF seq = <<>> THEN 0
    ELSE (IF Head(seq) = e THEN 1 ELSE 0) + Count(Tail(seq), e)

\* e1 and e2 each occur in seq, and the first e1 comes before the first e2
Before(seq, e1, e2) ==
    \E i, j \in 1..Len(seq) : /\ i < j
                             /\ seq[i] = e1
                             /\ seq[j] = e2
                             /\ \A h \in 1..(j - 1) : seq[h] # e2

TransferEvents == {"Transfer:def.m_Array", "Transfer:def.m_IndexArray",
                   "Transfer:model.m_Array"}

Running == status = "running"

TypeOK ==
    /\ status \in {"running", "asserted", "segv", "undefined"}
    /\ Len(data) <= MaxData
    /\ stats.m_DrawCalls <= MaxDraws

----------------------------------------------------------------------------
(* C1 - C10 *)

\* C1: a ShaderModelDef is constructed only when nothing is cached for the
\* (definition, renderer) pair, so no pair ever sees more than one
\* construction and a pair has exactly one once CreateModelData has run for
\* it, whatever runs later (only CreateModelData constructs); every
\* CreateModelData that returns appends one new ShaderModel whose buffer is
\* none of the earlier ones and leaves the earlier ones in place.
C1_CacheReuse ==
    [][/\ constructions' # constructions => last'.op = "CreateModelData"
       /\ \A r \in Renderers, d \in DefIds :
         CreateModelData(r, d) =>
           /\ constructions'[d][r] # constructions[d][r] => cache[d][r] = NullDef
           /\ constructions'[d][r] = 1
           /\ \A d2 \in DefIds, r2 \in Renderers : constructions'[d2][r2] <= 1
           /\ status' = "running" =>
                /\ Len(data') = Len(data) + 1
                /\ SubSeq(data', 1, Len(data)) = data
                /\ data'[Len(data')].def = d
                /\ \A i \in 1..Len(data) :
                     data'[Len(data')].m_Array.buffer # data[i].m_Array.buffer]_vars

\* two instances of one definition on one renderer, one construction in all
C1_Witness ==
    /\ Running
    /\ Len(data) = 2
    /\ data[1].def = data[2].def
    /\ \E r \in Renderers :
         /\ constructions[data[1].def][r] = 1
         /\ \A d \in DefIds, r2 \in Renderers :
              <<d, r2>> # <<data[1].def, r>> => constructions[d][r2] = 0

\* C2: a RenderModel call made with a prepared definition leaves the
\* instance's buffer bound to slot 1 and the prepared definition's index
\* buffer bound, and has issued exactly one indexed draw with index count
\* 3*F and vertex range [0, V-1] of the model's definition (6 and [0,3] for
\* V=4, F=2).
C2_RenderDraw ==
    (last.op = "RenderModel" /\ Running) =>
        LET r == last.r
            k == last.k
            d == data[k].def
        IN  /\ shadermodeldef[r] # NULL
            /\ ctx.vb1 = [buffer |-> data[k].m_Array.buffer,
                          offset |-> data[k].m_Array.offset * data[k].m_Array.stride]
            /\ ctx.vb0.buffer # data[k].m_Array.buffer
            /\ ctx.ib = cache[shadermodeldef[r]][r].m_IndexArray.buffer
            /\ Count(last.events, "DrawIndexedInRange") = 1
            /\ ctx.draw.indexCount = 3 * NumFaces[d]
            /\ ctx.draw.start = 0
            /\ ctx.draw.end = NumVertices[d] - 1
            /\ (NumVertices[d] = 4 /\ NumFaces[d] = 2) =>
                 (ctx.draw.indexCount = 6 /\ ctx.draw.end = 3)

C2_Witness ==
    /\ last.op = "RenderModel"
    /\ Running
    /\ NumVertices[data[last.k].def] = 4
    /\ NumFaces[data[last.k].def] = 2
    /\ ctx.draw.indexCount = 6
    /\ ctx.draw.end = 3

\* C3: an UploadModelData call transfers each of the three buffers at most
\* once, and one that directly follows an UploadModelData call for the same
\* model transfers nothing.
C3_UploadTwice ==
    last.op = "UploadModelData" =>
        \A e \in TransferEvents :
            /\ Count(last.events, e) <= 1
            /\ last.again => Count(last.events, e) = 0

\* the second of two uploads in a row, of a model whose contents were
\* rebuilt and have reached the GPU
C3_Witness ==
    /\ last.op = "UploadModelData"
    /\ last.again
    /\ Running
    /\ data[last.k].m_Array.gpu[1] = "pose"
    /\ data[last.k].m_Array.gpu = data[last.k].m_Array.cpu

\* C4: an UpdateModelData call without the vertices-changed flag rebuilds
\* nothing and uploads nothing: the contents of every buffer, CPU side and
\* GPU side, and every pending transfer are as before. An UploadModelData
\* that follows it for the same model transfers the instance buffer only if
\* that transfer was pending before the update, and then transfers what was
\* built before the update.
C4_NoVerticesFlag ==
    [][/\ (last'.op = "UpdateModelData" /\ RENDERDATA_UPDATE_VERTICES \notin last'.flags) =>
            /\ data' = data
            /\ cache' = cache
            /\ Count(last'.events, "BuildPositionAndNormals") = 0
            /\ Count(last'.events, "Upload:model.m_Array") = 0
            /\ \A e \in TransferEvents : Count(last'.events, e) = 0
       /\ (/\ last.op = "UpdateModelData"
           /\ RENDERDATA_UPDATE_VERTICES \notin last.flags
           /\ last'.op = "UploadModelData"
           /\ last'.k = last.k
           /\ status' = "running") =>
            LET before == data[last.k].m_Array
                after == data'[last.k].m_Array
            IN  /\ Count(last'.events, "Transfer:model.m_Array") = 1 =>
                     (before.dirty /\ after.gpu = before.cpu)
                /\ ~before.dirty =>
                     (after = before /\ Count(last'.events, "Transfer:model.m_Array") = 0)
                /\ after.cpu = before.cpu]_vars

\* an update without the flag, of a model whose contents are on the GPU
C4_Witness ==
    /\ last.op = "UpdateModelData"
    /\ RENDERDATA_UPDATE_VERTICES \notin last.flags
    /\ data[last.k].m_Array.gpu[1] = "pose"

\* C5: every ShaderModel returned has stride 32, position offset 16 and
\* normal offset 0, all multiples of 16; where the platform lays the two
\* attributes out otherwise, CreateModelData stops on an assertion and
\* returns nothing.
C5_InstanceLayout ==
    /\ \A k \in 1..Len(data) :
         /\ data[k].m_Array.stride = 32
         /\ data[k].m_Position.offset = 16
         /\ data[k].m_Normal.offset = 0
         /\ data[k].m_Array.stride % 16 = 0
         /\ data[k].m_Position.offset % 16 = 0
         /\ data[k].m_Normal.offset % 16 = 0
    /\ (/\ last.op = "CreateModelData"
        /\ \/ LayoutStride(InstanceFormats, packing) # 32
           \/ LayoutOffset(InstanceFormats, 1, packing) # 16
           \/ LayoutOffset(InstanceFormats, 2, packing) # 0) =>
         (status = "asserted" /\ last.k = 0 /\ data = <<>>)

C5_Witness ==
    /\ last.op = "CreateModelData"
    /\ Running
    /\ last.k = Len(data)
    /\ Len(data) = 2

\* the other case of C5: the layout differs and the call has stopped
C5_WitnessHalt ==
    /\ last.op = "CreateModelData"
    /\ status = "asserted"
    /\ packing = "forward"

\* C6: in every state, every cached ShaderModelDef has 3*F indices, V
\* vertices in its static buffer and one UV attribute per UV channel of its
\* definition.
C6_DefSizes ==
    \A d \in DefIds, r \in Renderers :
        cache[d][r] # NullDef =>
            /\ cache[d][r].m_IndexArray.n = 3 * NumFaces[d]
            /\ cache[d][r].m_Array.n = NumVertices[d]
            /\ Len(cache[d][r].m_UVs) = NumUVsPerVertex[d]

\* a definition with two UV channels is cached and later operations ran
C6_Witness ==
    /\ Running
    /\ last.op = "RenderModel"
    /\ \E d \in DefIds, r \in Renderers :
         /\ NumUVsPerVertex[d] = 2
         /\ cache[d][r] # NullDef
         /\ stats.m_DrawCalls = 2

\* C7: while the program runs the draw-call counter equals the number of
\* RenderModel calls made and the triangle counter the sum of the face
\* counts of the models rendered, and no operation other than RenderModel
\* changes either counter.
C7_Stats ==
    [][/\ status' = "running" =>
            /\ stats'.m_DrawCalls = renderCalls'
            /\ stats'.m_ModelTris = renderedFaces'
       /\ last'.op # "RenderModel" => stats' = stats
       /\ (last'.op = "RenderModel" /\ status' = "running") =>
            /\ stats'.m_DrawCalls = stats.m_DrawCalls + 1
            /\ stats'.m_ModelTris = stats.m_ModelTris + NumFaces[data[last'.k].def]]_vars

\* two draws, one of each definition
C7_Witness ==
    /\ Running
    /\ stats.m_DrawCalls = 2
    /\ stats.m_ModelTris = 3

\* C8: whenever UploadModelData, PrepareModelDef or RenderModel stops the
\* program, it stops on an assertion.
C8_NullDefAsserts ==
    (last.op \in {"UploadModelData", "PrepareModelDef", "RenderModel"} /\ ~Running) =>
        status = "asserted"

\* C9: while the program runs, the bound vertex-input layout and the slot-0
\* buffer are those of the ShaderModelDef of the latest PrepareModelDef
\* call, and CreateModelData, UpdateModelData, UploadModelData and
\* RenderModel change neither.
C9_PreparedBindings ==
    [][/\ last'.op # "PrepareModelDef" =>
            (ctx'.layout = ctx.layout /\ ctx'.vb0 = ctx.vb0)
       /\ (status' = "running" /\ preparedBy' # NULL) =>
            LET def == cache'[lastPrepared'[preparedBy']][preparedBy']
            IN  /\ ctx'.layout = def.m_VertexInputLayout
                /\ ctx'.vb0 = [buffer |-> def.m_Array.buffer,
                               offset |-> def.m_Array.offset * def.m_Array.stride]]_vars

\* a draw made after a prepare, with the prepared bindings still in place
C9_Witness ==
    /\ Running
    /\ preparedBy # NULL
    /\ last.op = "RenderModel"
    /\ stats.m_DrawCalls = 2
    /\ ctx.vb0.buffer = <<"defVB", lastPrepared[preparedBy], preparedBy>>

\* C10: an UpdateModelData call with the vertices-changed flag rebuilds
\* positions and normals once and calls the upload of the instance buffer
\* once, the rebuild first; after it the buffer holds the rebuilt contents
\* and its upload is under way.
C10_RebuildThenUpload ==
    (last.op = "UpdateModelData" /\ RENDERDATA_UPDATE_VERTICES \in last.flags) =>
        /\ Count(last.events, "BuildPositionAndNormals") = 1
        /\ Count(last.events, "Upload:model.m_Array") = 1
        /\ Before(last.events, "BuildPositionAndNormals", "Upload:model.m_Array")
        /\ data[last.k].m_Array.cpu[1] = "pose"
        /\ data[last.k].m_Array.dirty

\* a rebuild over contents that are already on the GPU
C10_Witness ==
    /\ last.op = "UpdateModelData"
    /\ RENDERDATA_UPDATE_VERTICES \in last.flags
    /\ data[last.k].m_Array.gpu[1] = "pose"
    /\ data[last.k].m_Array.gpu # data[last.k].m_Array.cpu

----------------------------------------------------------------------------
(* C11 - C18 *)

\* C11: every UpdateModelData call, with or without the vertices-changed
\* flag, calls PrepareForRendering on the instance buffer exactly once and
\* as its last call; when the call rebuilds and uploads, both come before
\* the preparation.
C11_PrepareLast ==
    last.op = "UpdateModelData" =>
        /\ Len(last.events) >= 1
        /\ last.events[Len(last.events)] = "PrepareForRendering"
        /\ Count(last.events, "PrepareForRendering") = 1
        /\ RENDERDATA_UPDATE_VERTICES \in last.flags =>
             /\ Before(last.events, "BuildPositionAndNormals", "PrepareForRendering")
             /\ Before(last.events, "Upload:model.m_Array", "PrepareForRendering")
        /\ RENDERDATA_UPDATE_VERTICES \notin last.flags =>
             last.events = <<"PrepareForRendering">>

\* both cases on one instance: an update without the flag, of an instance
\* whose earlier update rebuilt it and whose upload has run
C11_Witness ==
    /\ last.op = "UpdateModelData"
    /\ RENDERDATA_UPDATE_VERTICES \notin last.flags
    /\ last.events = <<"PrepareForRendering">>
    /\ data[last.k].m_Array.gpu[1] = "pose"
    /\ ~data[last.k].m_Array.dirty

\* C12: no step changes the UV data, the index data, the vertex count, the
\* index count or the vertex-input layout of a ShaderModelDef that is
\* already cached, whichever operation it is and whichever instance it is
\* called for.
C12_DefNeverMutated ==
    [][\A d \in DefIds, r \in Renderers :
         cache[d][r] # NullDef =>
           /\ cache'[d][r] # NullDef
           /\ cache'[d][r].m_Array.gpu = cache[d][r].m_Array.gpu
           /\ cache'[d][r].m_IndexArray.gpu = cache[d][r].m_IndexArray.gpu
           /\ cache'[d][r].m_Array.n = cache[d][r].m_Array.n
           /\ cache'[d][r].m_IndexArray.n = cache[d][r].m_IndexArray.n
           /\ cache'[d][r].m_UVs = cache[d][r].m_UVs
           /\ cache'[d][r].m_VertexInputLayout = cache[d][r].m_VertexInputLayout]_vars

\* a second instance of a definition has been created, updated, uploaded
\* and drawn, and the definition still holds what its constructor uploaded
C12_Witness ==
    /\ Running
    /\ Len(data) = 2
    /\ data[1].def = data[2].def
    /\ last.op = "RenderModel"
    /\ last.k = 2
    /\ data[2].m_Array.gpu[1] = "pose"
    /\ cache[data[2].def][last.r] # NullDef
    /\ cache[data[2].def][last.r].m_Array.gpu = BuiltUVs(data[2].def)
    /\ cache[data[2].def][last.r].m_IndexArray.gpu = BuiltIndices(data[2].def)

\* the attributes a vertex-input layout declares for a stream slot
SlotAttributes(layout, slot) ==
    {layout[i] : i \in {j \in 1..Len(layout) : layout[j].slot = slot}}

\* C13: at every draw of RenderModel the instance buffer of the model drawn
\* is the one bound to slot 1, and every attribute the bound vertex-input
\* layout declares for slot 1 has that buffer's stride, POSITION has the
\* byte offset of its position attribute and NORMAL that of its normal
\* attribute; where the call returns, the layout declares both, with
\* stride 32 and offsets 16 and 0.
C13_Slot1LayoutMatches ==
    (last.op = "RenderModel" /\ Count(last.events, "DrawIndexedInRange") = 1) =>
        LET sm == data[last.k]
            slot1 == SlotAttributes(ctx.layout, 1)
        IN  /\ ctx.vb1.buffer = sm.m_Array.buffer
            /\ \A a \in slot1 :
                 /\ a.stride = sm.m_Array.stride
                 /\ a.stream \in {"POSITION", "NORMAL"}
                 /\ a.stream = "POSITION" => a.offset = sm.m_Position.offset
                 /\ a.stream = "NORMAL" => a.offset = sm.m_Normal.offset
            /\ Running =>
                 /\ \E a \in slot1 : a.stream = "POSITION" /\ a.offset = 16 /\ a.stride = 32
                 /\ \E a \in slot1 : a.stream = "NORMAL" /\ a.offset = 0 /\ a.stride = 32

\* a draw of the second instance under the layout of the other definition
C13_Witness ==
    /\ Running
    /\ last.op = "RenderModel"
    /\ last.k = 2
    /\ Count(last.events, "DrawIndexedInRange") = 1
    /\ Len(ctx.layout) = 4
    /\ NumUVsPerVertex[data[2].def] = 1
    /\ ctx.vb1.buffer = <<"instVB", 2>>

\* the streams of a layout, in the order they were pushed
Streams(layout) == [i \in 1..Len(layout) |-> layout[i].stream]

\* C14: the layout of every cached ShaderModelDef of a definition with C UV
\* channels declares UV0 on slot 0, POSITION and NORMAL on slot 1 with
\* offsets 16 and 0 and stride 32, and UV1 (on slot 0) exactly when
\* C >= 2: three attributes when C < 2, four when C >= 2; the UV
\* attributes carry the offsets and the stride of the static buffer.
C14_LayoutAttributes ==
    \A d \in DefIds, r \in Renderers :
        cache[d][r] # NullDef =>
            LET layout == cache[d][r].m_VertexInputLayout
                C == NumUVsPerVertex[d]
            IN  /\ Streams(layout) = IF C >= 2 THEN <<"UV0", "POSITION", "NORMAL", "UV1">>
                                               ELSE <<"UV0", "POSITION", "NORMAL">>
                /\ Len(layout) = IF C < 2 THEN 3 ELSE 4
                /\ \A i \in 1..Len(layout) :
                     LET a == layout[i]
                     IN  /\ a.rate = "PER_VERTEX"
                         /\ a.stream \in {"UV0", "UV1"} =>
                              /\ a.slot = 0
                              /\ a.format = R32G32_SFLOAT
                              /\ a.stride = cache[d][r].m_Array.stride
                              /\ a.offset = cache[d][r].m_UVs[IF a.stream = "UV0" THEN 1 ELSE 2].offset
                         /\ a.stream \in {"POSITION", "NORMAL"} =>
                              /\ a.slot = 1
                              /\ a.format = R32G32B32_SFLOAT
                              /\ a.stride = 32
                              /\ a.offset = IF a.stream = "POSITION" THEN 16 ELSE 0

\* one renderer holds a layout of each kind: three attributes for the
\* definition with one UV channel, four for the one with two
C14_Witness ==
    \E r \in Renderers, d3, d4 \in DefIds :
        /\ cache[d3][r] # NullDef
        /\ cache[d4][r] # NullDef
        /\ NumUVsPerVertex[d3] = 1
        /\ NumUVsPerVertex[d4] = 2
        /\ Len(cache[d3][r].m_VertexInputLayout) = 3
        /\ Len(cache[d4][r].m_VertexInputLayout) = 4

\* calls that read or write the CPU-side contents of a definition's buffers
DefCpuAccesses == {"BuildUV:0", "BuildUV:1", "BuildIndices",
                   "Upload:def.m_Array", "Upload:def.m_IndexArray",
                   "Transfer:def.m_Array", "Transfer:def.m_IndexArray"}

\* C15: a ShaderModelDef construction builds every UV channel before the
\* one upload of the static buffer and the indices before the one upload of
\* the index buffer, and releases each backing store once, after that
\* buffer's upload. From then on the GPU holds what was built, the backing
\* stores stay released, and no operation that constructs nothing builds,
\* uploads or transfers either buffer.
C15_BuildUploadRelease ==
    /\ (last.op = "CreateModelData" /\ Count(last.events, "new ShaderModelDef") = 1) =>
         LET e == last.events
         IN  /\ Count(e, "BuildUV:0") = 1
             /\ Before(e, "BuildUV:0", "Upload:def.m_Array")
             /\ Count(e, "BuildUV:1") <= 1
             /\ Count(e, "BuildUV:1") = 1 => Before(e, "BuildUV:1", "Upload:def.m_Array")
             /\ Running => (Count(e, "BuildUV:1") = 1 <=> NumUVsPerVertex[data[last.k].def] = 2)
             /\ Count(e, "Upload:def.m_Array") = 1
             /\ Count(e, "FreeBackingStore:def.m_Array") = 1
             /\ Before(e, "Upload:def.m_Array", "Transfer:def.m_Array")
             /\ Before(e, "Transfer:def.m_Array", "FreeBackingStore:def.m_Array")
             /\ Count(e, "BuildIndices") = 1
             /\ Count(e, "Upload:def.m_IndexArray") = 1
             /\ Count(e, "FreeBackingStore:def.m_IndexArray") = 1
             /\ Before(e, "BuildIndices", "Upload:def.m_IndexArray")
             /\ Before(e, "Upload:def.m_IndexArray", "Transfer:def.m_IndexArray")
             /\ Before(e, "Transfer:def.m_IndexArray", "FreeBackingStore:def.m_IndexArray")
    /\ Count(last.events, "new ShaderModelDef") = 0 =>
         \A c \in DefCpuAccesses \cup {"FreeBackingStore:def.m_Array",
                                       "FreeBackingStore:def.m_IndexArray"} :
             Count(last.events, c) = 0
    /\ \A d \in DefIds, r \in Renderers :
         cache[d][r] # NullDef =>
             /\ ~cache[d][r].m_Array.backing
             /\ ~cache[d][r].m_IndexArray.backing
             /\ cache[d][r].m_Array.cpu = <<"freed">>
             /\ cache[d][r].m_IndexArray.cpu = <<"freed">>
             /\ cache[d][r].m_Array.gpu = BuiltUVs(d)
             /\ cache[d][r].m_IndexArray.gpu = BuiltIndices(d)
             /\ ~cache[d][r].m_Array.dirty
             /\ ~cache[d][r].m_IndexArray.dirty

\* after the release: an UploadModelData for a definition with two UV
\* channels that transfers the instance buffer and leaves the definition's
\* buffers alone
C15_Witness ==
    /\ Running
    /\ last.op = "UploadModelData"
    /\ last.events = <<"Transfer:model.m_Array">>
    /\ NumUVsPerVertex[data[last.k].def] = 2
    /\ cache[data[last.k].def][last.r].m_Array.gpu = BuiltUVs(data[last.k].def)
    /\ ~cache[data[last.k].def][last.r].m_Array.backing

\* the construction itself, of a definition with two UV channels
C15_WitnessConstruction ==
    /\ Running
    /\ last.op = "CreateModelData"
    /\ Count(last.events, "new ShaderModelDef") = 1
    /\ Count(last.events, "BuildUV:1") = 1

\* C16: a RenderModel call on a renderer whose latest PrepareModelDef was
\* given the definition of the model drawn returns, and its draw reads the
\* index buffer of that definition on that renderer from that buffer's
\* index offset, consumes exactly as many indices as the buffer holds and
\* addresses exactly the vertices of the definition's static buffer.
C16_DrawOwnDefinition ==
    (last.op = "RenderModel" /\ lastPrepared[last.r] = data[last.k].def) =>
        LET d == data[last.k].def
            def == cache[d][last.r]
        IN  /\ Running
            /\ def # NullDef
            /\ ctx.ib = def.m_IndexArray.buffer
            /\ ctx.ib = <<"defIB", d, last.r>>
            /\ ctx.draw.firstIndex = def.m_IndexArray.offset
            /\ ctx.draw.indexCount = def.m_IndexArray.n
            /\ ctx.draw.start = 0
            /\ ctx.draw.end = def.m_Array.n - 1

\* a draw of a model of its own prepared definition whose indices do not
\* start the shared index buffer
C16_Witness ==
    /\ Running
    /\ last.op = "RenderModel"
    /\ lastPrepared[last.r] = data[last.k].def
    /\ ctx.draw.firstIndex > 0
    /\ ctx.draw.indexCount = 6

\* C17: a CreateModelData call that returns leaves a ShaderModelDef cached
\* for its definition under its renderer; an entry once constructed is
\* never removed and never constructed again; so the non-null assertion of
\* UploadModelData or of PrepareModelDef fails only for a (definition,
\* renderer) pair for which no CreateModelData call was ever made.
C17_CacheEntryStays ==
    /\ (last.op = "CreateModelData" /\ Running) =>
         /\ cache[data[last.k].def][last.r] # NullDef
         /\ constructions[data[last.k].def][last.r] = 1
    /\ \A d \in DefIds, r \in Renderers :
         /\ constructions[d][r] <= 1
         /\ constructions[d][r] = 1 =>
              /\ cache[d][r] # NullDef
              /\ cache[d][r].m_Array.buffer = <<"defVB", d, r>>
              /\ cache[d][r].m_IndexArray.buffer = <<"defIB", d, r>>
    /\ (last.op = "UploadModelData" /\ status = "asserted") =>
         constructions[data[last.k].def][last.r] = 0
    /\ (last.op = "PrepareModelDef" /\ status = "asserted") =>
         constructions[lastPrepared[last.r]][last.r] = 0

\* long after the CreateModelData call for the definition on the renderer:
\* an UploadModelData for a second model of the definition passes its
\* assertion, after a PrepareModelDef of the definition and a draw did
C17_Witness ==
    /\ Running
    /\ last.op = "UploadModelData"
    /\ last.k = 2
    /\ data[1].def = data[2].def
    /\ constructions[data[2].def][last.r] = 1
    /\ shadermodeldef[last.r] = data[2].def
    /\ stats.m_DrawCalls >= 1

\* the other side of C17: the assertion of UploadModelData fails on a
\* renderer that never created a model of the definition
C17_WitnessOtherRenderer ==
    /\ status = "asserted"
    /\ last.op = "UploadModelData"
    /\ \E r \in Renderers : constructions[data[last.k].def][r] = 1

\* C18: m->shadermodeldef of a renderer is null as long as PrepareModelDef
\* has not been called on it, and from then on it is the cache entry, under
\* this renderer, of the definition given to the renderer's latest
\* PrepareModelDef call (null where that entry is null, and the call has
\* stopped the program); no other operation assigns it.
C18_PreparedReference ==
    \A r \in Renderers :
        /\ lastPrepared[r] = NULL => shadermodeldef[r] = NULL
        /\ lastPrepared[r] # NULL =>
             IF cache[lastPrepared[r]][r] = NullDef
             THEN shadermodeldef[r] = NULL /\ status = "asserted"
             ELSE shadermodeldef[r] = lastPrepared[r]
        /\ (last.op = "PrepareModelDef" /\ last.r = r /\ Running) =>
             /\ shadermodeldef[r] = lastPrepared[r]
             /\ ctx.layout = cache[shadermodeldef[r]][r].m_VertexInputLayout

\* a renderer that drew with one prepared definition has now been prepared
\* with the other one, while the other renderer was never prepared
C18_Witness ==
    /\ Running
    /\ last.op = "PrepareModelDef"
    /\ stats.m_DrawCalls >= 1
    /\ ctx.ib[1] = "defIB"
    /\ ctx.ib[3] = last.r
    /\ ctx.ib[2] # lastPrepared[last.r]
    /\ shadermodeldef[last.r] = lastPrepared[last.r]
    /\ \E r \in Renderers : r # last.r /\ shadermodeldef[r] = NULL /\ Len(data) = 2

====
